---- MODULE Spec2Model ----
(***************************************************************************)
(* Model of the two pieces of logic of the video-sharing frontend:         *)
(*   - AuthGuard: three reactive effects that clear the SIWE session and   *)
(*     a render decision between the login page and the protected subtree; *)
(*   - VideoGrid: the keyed fetch effect and the asynchronous fetchVideos. *)
(* React is modelled by its commit cycle: a commit renders the component   *)
(* from the current stores and schedules the effects whose dependencies    *)
(* changed; the scheduled effects are flushed together, reading the values *)
(* of the render they belong to, before the next commit.                   *)
(***************************************************************************)
EXTENDS Integers, Sequences, FiniteSets, TLC

VARIABLES
    wallet,      \* wagmi store: [isConnected, address, chain]
    sess,        \* identity store: [isInitializing, identity, identityAddress]
    login,       \* address of the sign-in in flight, or None
    mounted,     \* AuthGuard has rendered at least once
    rendered,    \* the values AuthGuard read in its last render
    shown,       \* what that render returned: {"LoginPage"} or {"children"}
    pending,     \* AuthGuard effects scheduled by the last commit, not yet run
    lastClear,   \* the effects that called clear() in the last flush
    wiped,       \* the last flush removed an identity that was present
    actor,       \* VideoGrid: the value of useActor()
    tag,         \* VideoGrid: the tag prop
    videos,      \* VideoGrid state: the timestamps of the videos, in order
    loading,     \* VideoGrid state
    error,       \* VideoGrid state: NoError or the message
    prevFetchIdRef, \* VideoGrid ref: the id of the last fetch started
    vgPending,   \* the fetch effect is scheduled and has not run yet
    inflight,    \* the fetchVideos() calls awaiting the backend: [id, op, tag]
    nFetches,    \* the number of fetchVideos() calls started
    lastFetch,   \* the fetchVideos() call started last: [key, tag]
    nCalls,      \* the number of backend calls issued
    lastCall,    \* the backend call issued last: [fetch, op, arg]
    lastResp,    \* the backend response settled last: [fetch, tag, resp]
    helperIn,    \* the argument a display helper of VideoGrid is called with
    helperOut    \* what the helper returned, or NotCalled

authVars ==
    <<wallet, sess, login, mounted, rendered, shown, pending, lastClear, wiped>>

videoVars ==
    <<actor, tag, videos, loading, error, prevFetchIdRef, vgPending, inflight,
      nFetches, lastFetch, nCalls, lastCall, lastResp>>

helperVars == <<helperIn, helperOut>>

vars == <<authVars, videoVars, helperVars>>

None == "none"
\* chain?.id when the wallet has no active chain
NoChain == 0

Addresses == {"0xA", "0xB"}

\* chain ids the wallet can be on; SupportedChainIds is the app's chain list
ChainIds == {1, 5}
SupportedChainIds == {1}

-----------------------------------------------------------------------------
(* AuthGuard *)

\* isChainIdSupported(chain?.id): undefined is not supported
isChainIdSupported(id) == id \in SupportedChainIds

\* clear() of useSiweIdentity: the session is reset to empty
clear(s) == [s EXCEPT !.identity = FALSE, !.identityAddress = None]

\* what one render of AuthGuard reads from its three hooks
Current ==
    [isConnected     |-> wallet.isConnected,
     address         |-> wallet.address,
     chain           |-> wallet.chain,
     isInitializing  |-> sess.isInitializing,
     identity        |-> sess.identity,
     identityAddress |-> sess.identityAddress]

Effect1Clears(r) == ~r.isConnected

\* faulty variant: the test of the chain is inverted
Effect2ClearsInverted(r) == isChainIdSupported(r.chain)

Effect2Clears(r) == ~isChainIdSupported(r.chain)

\* faulty variant: the addresses are compared with === instead of !==
Effect3ClearsWhenEqual(r) ==
    /\ r.identityAddress # None
    /\ r.address # None
    /\ r.address = r.identityAddress

\* faulty variant: the test that both addresses are set is missing
Effect3ClearsWhenUnset(r) == r.address # r.identityAddress

Effect3Clears(r) ==
    /\ r.identityAddress # None
    /\ r.address # None
    /\ r.address # r.identityAddress

EffectClears(e, r) ==
    CASE e = 1 -> Effect1Clears(r)
      [] e = 2 -> Effect2Clears(r)
      [] e = 3 -> Effect3Clears(r)

\* dependency arrays of the three effects (clear is a stable callback)
\* faulty variant: an empty dependency array, the effect runs on mount only
Effect1DepsEmpty(r) == <<>>

Effect1Deps(r) == <<r.isConnected>>

Effect2Deps(r) == <<r.chain>>

Effect3Deps(r) == <<r.address, r.identityAddress>>

EffectDeps(e, r) ==
    CASE e = 1 -> Effect1Deps(r)
      [] e = 2 -> Effect2Deps(r)
      [] e = 3 -> Effect3Deps(r)

Effects == {1, 2, 3}

\* effects React schedules when a render with values new follows one with old
Scheduled(isMount, old, new) ==
    IF isMount THEN Effects
    ELSE {e \in Effects : EffectDeps(e, old) # EffectDeps(e, new)}

\* faulty variant: the login page needs both conditions
AuthGuardRenderAnd(r) ==
    IF ~r.isInitializing /\ (~r.isConnected /\ ~r.identity)
    THEN {"LoginPage"}
    ELSE {"children"}

\* the return value of AuthGuard
AuthGuardRender(r) ==
    IF ~r.isInitializing /\ (~r.isConnected \/ ~r.identity)
    THEN {"LoginPage"}
    ELSE {"children"}

\* React renders AuthGuard (mount, or a store it subscribes to changed)
Commit ==
    /\ pending = {}
    /\ ~mounted \/ rendered # Current
    /\ mounted' = TRUE
    /\ rendered' = Current
    /\ shown' = AuthGuardRender(Current)
    /\ pending' = Scheduled(~mounted, rendered, Current)
    /\ UNCHANGED <<wallet, sess, login, lastClear, wiped>>
    /\ UNCHANGED <<videoVars, helperVars>>

\* React flushes the scheduled effects of the last commit, in order
FlushEffects ==
    /\ pending # {}
    /\ lastClear' = {e \in pending : EffectClears(e, rendered)}
    /\ sess' = IF lastClear' # {} THEN clear(sess) ELSE sess
    /\ wiped' = (lastClear' # {} /\ sess.identity)
    /\ pending' = {}
    /\ UNCHANGED <<wallet, login, mounted, rendered, shown>>
    /\ UNCHANGED <<videoVars, helperVars>>

-----------------------------------------------------------------------------
(* The stores AuthGuard observes *)

Connect(a, c) ==
    /\ ~wallet.isConnected
    /\ wallet' = [isConnected |-> TRUE, address |-> a, chain |-> c]
    /\ UNCHANGED <<sess, login, mounted, rendered, shown, pending, lastClear, wiped>>
    /\ UNCHANGED <<videoVars, helperVars>>

Disconnect ==
    /\ wallet.isConnected
    /\ wallet' = [isConnected |-> FALSE, address |-> None, chain |-> NoChain]
    /\ UNCHANGED <<sess, login, mounted, rendered, shown, pending, lastClear, wiped>>
    /\ UNCHANGED <<videoVars, helperVars>>

SwitchChain(c) ==
    /\ wallet.isConnected
    /\ c # wallet.chain
    /\ wallet' = [wallet EXCEPT !.chain = c]
    /\ UNCHANGED <<sess, login, mounted, rendered, shown, pending, lastClear, wiped>>
    /\ UNCHANGED <<videoVars, helperVars>>

SwitchAddress(a) ==
    /\ wallet.isConnected
    /\ a # wallet.address
    /\ wallet' = [wallet EXCEPT !.address = a]
    /\ UNCHANGED <<sess, login, mounted, rendered, shown, pending, lastClear, wiped>>
    /\ UNCHANGED <<videoVars, helperVars>>

\* the identity provider finishes loading
InitDone ==
    /\ sess.isInitializing
    /\ sess' = [sess EXCEPT !.isInitializing = FALSE]
    /\ UNCHANGED <<wallet, login, mounted, rendered, shown, pending, lastClear, wiped>>
    /\ UNCHANGED <<videoVars, helperVars>>

\* the user presses the sign-in button of the login page: the page is on
\* screen, it was rendered with the wallet connected on a supported chain,
\* and no sign-in is running
LoginStart ==
    /\ mounted
    /\ "LoginPage" \in shown
    /\ rendered.isConnected
    /\ isChainIdSupported(rendered.chain)
    /\ login = None
    /\ login' = rendered.address
    /\ UNCHANGED <<wallet, sess, mounted, rendered, shown, pending, lastClear, wiped>>
    /\ UNCHANGED <<videoVars, helperVars>>

\* the wallet signature and the backend login resolve: the identity is stored
LoginComplete ==
    /\ login # None
    /\ sess' = [sess EXCEPT !.identity = TRUE, !.identityAddress = login]
    /\ login' = None
    /\ UNCHANGED <<wallet, mounted, rendered, shown, pending, lastClear, wiped>>
    /\ UNCHANGED <<videoVars, helperVars>>

\* the user rejects the signature, or the backend login fails
LoginFail ==
    /\ login # None
    /\ login' = None
    /\ UNCHANGED <<wallet, sess, mounted, rendered, shown, pending, lastClear, wiped>>
    /\ UNCHANGED <<videoVars, helperVars>>


-----------------------------------------------------------------------------
(* VideoGrid *)

\* bound of the model: the fetches one behaviour starts
MaxFetches == 3

NoError == "null"
TypeErrorMessage == "Failed to load videos: Cannot read properties of null"

\* strings are sequences of character codes
StrEmpty == <<>>
StrAll == <<97, 108, 108>>
StrAllCap == <<65, 108, 108>>
StrComedy == <<67, 111, 109, 101, 100, 121>>
StrComedyLower == <<99, 111, 109, 101, 100, 121>>

\* the optional tag prop
Undefined == [defined |-> FALSE, str |-> StrEmpty]
Str(s) == [defined |-> TRUE, str |-> s]

Tags == {Undefined, Str(StrEmpty), Str(StrAll), Str(StrAllCap), Str(StrComedy)}

\* useActor(): null, a proxy whose nested actor is not there yet, or a ready
\* proxy, which may or may not expose search_videos
NoActor == [kind |-> "null", search_videos |-> FALSE]
ActorValues ==
    {NoActor, [kind |-> "proxy", search_videos |-> FALSE]}
      \cup {[kind |-> "ready", search_videos |-> b] : b \in BOOLEAN}

\* the lists of timestamps a backend query returns
ResponseLists == {<<>>, <<20>>, <<5, 20, 1>>, <<1, 5, 5>>}

\* what a backend call settles to: a list, a rejection, or a value that is
\* no list
Responses ==
    {[kind |-> "ok", list |-> l] : l \in ResponseLists}
      \cup {[kind |-> "reject", list |-> <<>>], [kind |-> "null", list |-> <<>>]}

NoResp == [fetch |-> 0, tag |-> Undefined,
           resp |-> [kind |-> "none", list |-> <<>>]]

\* JavaScript truthiness of the tag prop: undefined and "" are falsy
Truthy(t) == t.defined /\ t.str # StrEmpty

toLowerCaseChar(c) == IF c \in 65..90 THEN c + 32 ELSE c

\* faulty variant: the tag is passed as it is
toLowerCaseIdentity(str) == str

toLowerCase(str) == [k \in 1..Len(str) |-> toLowerCaseChar(str[k])]

\* faulty variant: only "all" is the sentinel
IsFilterTagAllOnly(t) == Truthy(t) /\ t.str # StrAll

\* tag && tag !== "all" && tag !== "All"
IsFilterTag(t) == Truthy(t) /\ t.str # StrAll /\ t.str # StrAllCap

\* `${actorId}-${tag || 'all'}`
FetchId(a, t) ==
    <<IF a.kind = "ready" THEN "has-nested-actor" ELSE "no-nested-actor",
      IF Truthy(t) THEN t.str ELSE StrAll>>

\* faulty variant: the guard on the previous fetch id is dropped
KeyChangedAlways(prev, fetchId) == TRUE

\* prevFetchIdRef.current !== fetchId
KeyChanged(prev, fetchId) == prev # fetchId

NoCall == [op |-> "none", arg |-> <<>>]

NoFetch == [key |-> <<>>, tag |-> Undefined]

\* the backend call fetchVideos issues for an actor and a tag, if any
FetchCall(a, t) ==
    IF IsFilterTag(t)
    THEN [op |-> "list_videos_by_tag", arg |-> <<toLowerCase(t.str)>>]
    ELSE IF a.search_videos
         THEN [op |-> "search_videos", arg |-> <<StrEmpty, <<>>, <<>>>>]
         ELSE NoCall

\* timestamps are wide integers (bigint). An integer t < Wide stands for
\* itself; Wide + k stands for 2^53 + k, the first values a double cannot
\* all hold.
Wide == 1000

\* Number(timestamp): exact below 2^53; from 2^53 on the doubles are the even
\* offsets, and a tie goes to the even mantissa (offset divisible by 4)
Number(t) ==
    IF t < Wide THEN t
    ELSE LET k == t - Wide
         IN  Wide + (IF k % 2 = 0 THEN k
                     ELSE IF (k - 1) % 4 = 0 THEN k - 1 ELSE k + 1)

\* insertion of x behind the elements that do not sort after it
RECURSIVE InsertDesc(_, _)
InsertDesc(l, x) ==
    IF l = <<>> THEN <<x>>
    ELSE IF Number(Head(l)) >= Number(x)
         THEN <<Head(l)>> \o InsertDesc(Tail(l), x)
         ELSE <<x>> \o l

\* faulty variant: the list is exposed in the order it was returned
SortDescNone(l) == l

\* videoList.sort((a, b) => Number(b.timestamp) - Number(a.timestamp))
RECURSIVE SortDesc(_)
SortDesc(l) ==
    IF l = <<>> THEN <<>>
    ELSE InsertDesc(SortDesc(SubSeq(l, 1, Len(l) - 1)), l[Len(l)])

\* faulty variant: a rejected query is not caught by its handler
SettleRejectEscapes(op, resp) ==
    [videoList |-> IF resp.kind = "ok" THEN resp.list ELSE <<>>,
     threw |-> resp.kind = "reject" \/ (resp.kind = "null" /\ op = "search_videos")]

\* faulty variant: the length of the tag query's result is read outside
\* its handler
SettleTagNullEscapes(op, resp) ==
    [videoList |-> IF resp.kind = "ok" THEN resp.list ELSE <<>>,
     threw |-> resp.kind = "null"]

\* the value of videoList after the awaited call settled and the handlers
\* around it ran, and whether an exception reached the outer catch
Settle(op, resp) ==
    IF op = "list_videos_by_tag"
    THEN [videoList |-> IF resp.kind = "ok" THEN resp.list ELSE <<>>,
          threw |-> FALSE]
    ELSE [videoList |-> IF resp.kind = "ok" THEN resp.list ELSE <<>>,
          threw |-> resp.kind = "null"]

\* fetchVideos() up to its first await, called by the effect after
\* setLoading(true) and setError(null)
FetchVideosStart(fetchId) ==
    LET n == nFetches + 1
        call == FetchCall(actor, tag)
    IN  /\ error' = NoError
        /\ nFetches' = n
        /\ lastFetch' = [key |-> fetchId, tag |-> tag]
        /\ IF actor.kind = "null"
           THEN /\ loading' = FALSE
                /\ UNCHANGED <<videos, inflight, nCalls, lastCall>>
           ELSE IF call.op # "none"
           THEN /\ loading' = TRUE
                /\ nCalls' = nCalls + 1
                /\ lastCall' = [fetch |-> n, op |-> call.op, arg |-> call.arg]
                /\ inflight' = inflight
                                 \cup {[id |-> n, op |-> call.op, tag |-> tag]}
                /\ UNCHANGED videos
           ELSE /\ videos' = SortDesc(<<>>)
                /\ loading' = FALSE
                /\ UNCHANGED <<inflight, nCalls, lastCall>>

\* the effect with dependencies [actor, tag]
RunFetchEffect ==
    /\ vgPending
    /\ vgPending' = FALSE
    /\ IF actor.kind # "ready"
       THEN UNCHANGED <<videos, loading, error, prevFetchIdRef, inflight,
                        nFetches, lastFetch, nCalls, lastCall>>
       ELSE IF KeyChanged(prevFetchIdRef, FetchId(actor, tag))
       THEN /\ prevFetchIdRef' = FetchId(actor, tag)
            /\ FetchVideosStart(FetchId(actor, tag))
       ELSE UNCHANGED <<videos, loading, error, prevFetchIdRef, inflight,
                        nFetches, lastFetch, nCalls, lastCall>>
    /\ UNCHANGED <<actor, tag, lastResp>>
    /\ UNCHANGED <<authVars, helperVars>>

\* faulty variant: a fetch that is no longer the latest one writes nothing
ResolveIfLatest(f, resp) ==
    /\ f \in inflight
    /\ IF f.id = nFetches
       THEN /\ LET out == Settle(f.op, resp)
               IN  IF out.threw
                   THEN /\ error' = TypeErrorMessage
                        /\ videos' = <<>>
                   ELSE /\ videos' = SortDesc(out.videoList)
                        /\ UNCHANGED error
            /\ loading' = FALSE
       ELSE UNCHANGED <<videos, loading, error>>
    /\ inflight' = inflight \ {f}
    /\ lastResp' = [fetch |-> f.id, tag |-> f.tag, resp |-> resp]
    /\ UNCHANGED <<actor, tag, prevFetchIdRef, vgPending, nFetches, lastFetch,
                   nCalls, lastCall>>
    /\ UNCHANGED <<authVars, helperVars>>

\* faulty variant: a rejected tag query is followed by the unfiltered search
ResolveFallsBack(f, resp) ==
    /\ f \in inflight
    /\ lastResp' = [fetch |-> f.id, tag |-> f.tag, resp |-> resp]
    /\ IF f.op = "list_videos_by_tag" /\ resp.kind = "reject"
       THEN /\ nCalls' = nCalls + 1
            /\ lastCall' = [fetch |-> f.id, op |-> "search_videos",
                            arg |-> <<StrEmpty, <<>>, <<>>>>]
            /\ inflight' = (inflight \ {f})
                             \cup {[id |-> f.id, op |-> "search_videos",
                                    tag |-> f.tag]}
            /\ UNCHANGED <<videos, loading, error>>
       ELSE /\ LET out == Settle(f.op, resp)
               IN  IF out.threw
                   THEN /\ error' = TypeErrorMessage
                        /\ videos' = <<>>
                   ELSE /\ videos' = SortDesc(out.videoList)
                        /\ UNCHANGED error
            /\ loading' = FALSE
            /\ inflight' = inflight \ {f}
            /\ UNCHANGED <<nCalls, lastCall>>
    /\ UNCHANGED <<actor, tag, prevFetchIdRef, vgPending, nFetches, lastFetch>>
    /\ UNCHANGED <<authVars, helperVars>>

\* faulty variant: setLoading(false) follows the try block instead of being
\* its finally clause, so the outer catch path skips it
ResolveNoFinally(f, resp) ==
    /\ f \in inflight
    /\ LET out == Settle(f.op, resp)
       IN  IF out.threw
           THEN /\ error' = TypeErrorMessage
                /\ videos' = <<>>
                /\ UNCHANGED loading
           ELSE /\ videos' = SortDesc(out.videoList)
                /\ loading' = FALSE
                /\ UNCHANGED error
    /\ inflight' = inflight \ {f}
    /\ lastResp' = [fetch |-> f.id, tag |-> f.tag, resp |-> resp]
    /\ UNCHANGED <<actor, tag, prevFetchIdRef, vgPending, nFetches, lastFetch,
                   nCalls, lastCall>>
    /\ UNCHANGED <<authVars, helperVars>>

\* the awaited backend call of fetch f settles and fetchVideos runs to its end
Resolve(f, resp) ==
    /\ f \in inflight
    /\ LET out == Settle(f.op, resp)
       IN  IF out.threw
           THEN /\ error' = TypeErrorMessage
                /\ videos' = <<>>
           ELSE /\ videos' = SortDesc(out.videoList)
                /\ UNCHANGED error
    /\ loading' = FALSE
    /\ inflight' = inflight \ {f}
    /\ lastResp' = [fetch |-> f.id, tag |-> f.tag, resp |-> resp]
    /\ UNCHANGED <<actor, tag, prevFetchIdRef, vgPending, nFetches, lastFetch,
                   nCalls, lastCall>>
    /\ UNCHANGED <<authVars, helperVars>>

\* the parent renders VideoGrid with another tag
SetTag(t) ==
    /\ ~vgPending
    /\ nFetches < MaxFetches
    /\ t # tag
    /\ tag' = t
    /\ vgPending' = TRUE
    /\ UNCHANGED <<actor, videos, loading, error, prevFetchIdRef, inflight,
                   nFetches, lastFetch, nCalls, lastCall, lastResp>>
    /\ UNCHANGED <<authVars, helperVars>>

\* useActor() returns another value
SetActor(a) ==
    /\ ~vgPending
    /\ nFetches < MaxFetches
    /\ a # actor
    /\ actor' = a
    /\ vgPending' = TRUE
    /\ UNCHANGED <<tag, videos, loading, error, prevFetchIdRef, inflight,
                   nFetches, lastFetch, nCalls, lastCall, lastResp>>
    /\ UNCHANGED <<authVars, helperVars>>

\* const renderBranch = error ? "error" : loading ? "loading" : ...
renderBranch ==
    IF error # NoError THEN "error"
    ELSE IF loading THEN "loading"
    ELSE IF Len(videos) = 0 THEN "empty"
    ELSE "videos"

VideoUnmounted ==
    /\ actor = NoActor
    /\ tag = Undefined
    /\ videos = <<>>
    /\ loading = TRUE
    /\ error = NoError
    /\ prevFetchIdRef = <<>>
    /\ vgPending = FALSE
    /\ inflight = {}
    /\ nFetches = 0
    /\ lastFetch = NoFetch
    /\ nCalls = 0
    /\ lastCall = [fetch |-> 0, op |-> "none", arg |-> <<>>]
    /\ lastResp = NoResp

\* no display helper is being evaluated
HelperIdle == helperIn = <<>> /\ helperOut = <<>>

AuthUnmounted ==
    /\ wallet = [isConnected |-> FALSE, address |-> None, chain |-> NoChain]
    /\ sess = [isInitializing |-> TRUE, identity |-> FALSE,
               identityAddress |-> None]
    /\ login = None
    /\ mounted = FALSE
    /\ rendered = [isConnected |-> FALSE, address |-> None, chain |-> NoChain,
                   isInitializing |-> TRUE, identity |-> FALSE,
                   identityAddress |-> None]
    /\ shown = {}
    /\ pending = {}
    /\ lastClear = {}
    /\ wiped = FALSE

\* VideoGrid after its first render: the effect is scheduled
InitVideo ==
    /\ actor \in ActorValues
    /\ tag \in Tags
    /\ videos = <<>>
    /\ loading = TRUE
    /\ error = NoError
    /\ prevFetchIdRef = <<>>
    /\ vgPending = TRUE
    /\ inflight = {}
    /\ nFetches = 0
    /\ lastFetch = NoFetch
    /\ nCalls = 0
    /\ lastCall = [fetch |-> 0, op |-> "none", arg |-> <<>>]
    /\ lastResp = NoResp
    /\ AuthUnmounted
    /\ HelperIdle

NextVideo ==
    \/ RunFetchEffect
    \/ \E f \in inflight, resp \in Responses : Resolve(f, resp)
    \/ \E t \in Tags : SetTag(t)
    \/ \E a \in ActorValues : SetActor(a)

SpecVideo == InitVideo /\ [][NextVideo]_vars

\* bound of the sorting model: the length of a returned list
MaxLen == 3

\* timestamps of the sorting model: small ones, and three from 2^53 on
SortTimestamps == {1, 5, 20, Wide, Wide + 1, Wide + 2}

RECURSIVE SeqsUpTo(_)
SeqsUpTo(n) ==
    IF n = 0 THEN {<<>>}
    ELSE LET shorter == SeqsUpTo(n - 1)
         IN  shorter \cup {Append(l, t) :
                              l \in {x \in shorter : Len(x) = n - 1},
                              t \in SortTimestamps}

SortResponses == {[kind |-> "ok", list |-> l] : l \in SeqsUpTo(MaxLen)}

\* one fetchVideos() awaiting its backend call, either query
InitSort ==
    /\ actor = [kind |-> "ready", search_videos |-> TRUE]
    /\ tag \in {Undefined, Str(StrComedy)}
    /\ videos = <<>>
    /\ loading = TRUE
    /\ error = NoError
    /\ prevFetchIdRef = FetchId(actor, tag)
    /\ vgPending = FALSE
    /\ inflight = {[id |-> 1, op |-> FetchCall(actor, tag).op, tag |-> tag]}
    /\ nFetches = 1
    /\ lastFetch = [key |-> FetchId(actor, tag), tag |-> tag]
    /\ nCalls = 1
    /\ lastCall = [fetch |-> 1, op |-> FetchCall(actor, tag).op,
                   arg |-> FetchCall(actor, tag).arg]
    /\ lastResp = NoResp
    /\ AuthUnmounted
    /\ HelperIdle

\* the call returns any list of up to MaxLen timestamps
NextSort == \E f \in inflight, resp \in SortResponses : Resolve(f, resp)

SpecSort == InitSort /\ [][NextSort]_vars

-----------------------------------------------------------------------------
(* Display helpers of VideoGrid: getVideoThumbnail *)

\* a helper has not been called yet
NotCalled == <<>>

\* strings of the helpers are sequences of characters
IpfsPrefix == <<"i", "p", "f", "s", ":">>
VideoIdV1 == <<"v", "1">>
CidQm == <<"Q", "m">>
DefaultGateway == <<"salmon-worthy-hawk-798.mypinata.cloud">>
GatewayEnv == <<"gw.example">>

\* video.video_id
VideoIds == {Undefined, Str(<<>>), Str(VideoIdV1)}

\* video.storage_ref: undefined, a string, an array of strings (an optional
\* value of the backend), or a value of another type
StorageRefs ==
    {[t |-> "undefined", v |-> <<>>], [t |-> "number", v |-> <<>>]}
      \cup {[t |-> "string", v |-> <<str>>] :
               str \in {<<>>, IpfsPrefix, IpfsPrefix \o CidQm, CidQm,
                         CidQm \o IpfsPrefix, <<"i", "p", "f">>, <<"i", "p", "f", "s", "Q", "m">>}}
      \cup {[t |-> "array", v |-> l] :
               l \in {<<>>, <<<<>>>>, <<IpfsPrefix \o CidQm>>, <<CidQm>>,
                       <<CidQm, IpfsPrefix \o CidQm>>}}

\* import.meta.env.VITE_GATEWAY_URL
GatewayEnvs == {Undefined, Str(<<>>), Str(GatewayEnv)}

ThumbnailInputs ==
    {[video |-> [video_id |-> i, storage_ref |-> r], env |-> e] :
        i \in VideoIds, r \in StorageRefs, e \in GatewayEnvs}

\* str.startsWith(prefix)
startsWith(str, prefix) ==
    Len(str) >= Len(prefix) /\ SubSeq(str, 1, Len(prefix)) = prefix

\* str.substring(n)
substring(str, n) == SubSeq(str, n + 1, Len(str))

\* Array.isArray(ref) ? ref[0] : typeof ref === 'string' ? ref : null
FirstStorageRef(ref) ==
    IF ref.t = "array"
    THEN IF Len(ref.v) > 0 THEN Str(ref.v[1]) ELSE Undefined
    ELSE IF ref.t = "string" THEN Str(ref.v[1]) ELSE Undefined

\* if (video.storage_ref): undefined and "" are falsy, an array is truthy
StorageRefTruthy(ref) ==
    ref.t \in {"array", "number"} \/ (ref.t = "string" /\ ref.v[1] # <<>>)

PlaybackThumbnail(id) ==
    <<"https://vod-cdn.lp-playback.studio/hls/", id,
      "/thumbnails/keyframes_0.jpg">>

IpfsThumbnail(gatewayDomain, cid) ==
    <<"https://", gatewayDomain, "/ipfs/", cid, "/thumbnail.jpg">>

FallbackThumbnail == <<"/header.png">>

\* the branch of getVideoThumbnail below the test of video_id
StorageRefThumbnail(video, env) ==
    LET storageRef == FirstStorageRef(video.storage_ref)
        gatewayDomain == IF Truthy(env) THEN env.str ELSE DefaultGateway
    IN  IF /\ StorageRefTruthy(video.storage_ref)
           /\ Truthy(storageRef)
           /\ startsWith(storageRef.str, IpfsPrefix)
        THEN IpfsThumbnail(gatewayDomain, substring(storageRef.str, 5))
        ELSE FallbackThumbnail

\* faulty variant: the storage reference is looked at before the video id
getVideoThumbnailRefFirst(video, env) ==
    IF StorageRefThumbnail(video, env) # FallbackThumbnail
    THEN StorageRefThumbnail(video, env)
    ELSE IF Truthy(video.video_id)
         THEN PlaybackThumbnail(video.video_id.str)
         ELSE FallbackThumbnail

getVideoThumbnail(video, env) ==
    IF Truthy(video.video_id)
    THEN PlaybackThumbnail(video.video_id.str)
    ELSE StorageRefThumbnail(video, env)

\* the grid renders the thumbnail of one video
RenderThumbnail ==
    /\ helperOut = NotCalled
    /\ helperOut' = getVideoThumbnail(helperIn.video, helperIn.env)
    /\ UNCHANGED helperIn
    /\ UNCHANGED <<authVars, videoVars>>

InitThumb ==
    /\ helperIn \in ThumbnailInputs
    /\ helperOut = NotCalled
    /\ AuthUnmounted
    /\ VideoUnmounted

NextThumb == RenderThumbnail

SpecThumb == InitThumb /\ [][NextThumb]_vars

-----------------------------------------------------------------------------
(* Display helpers of VideoGrid: formatViewCount *)

Thousand == 1000
Million == 1000000

\* the grid calls formatViewCount(Math.floor(Math.random() * 20_000_000))
RandomRange == 20000000

\* the counts tried lie within MaxDelta of the thresholds and of round values
MaxDelta == 60

ViewCountBases ==
    {0, 1000, 1500, 1750, 99950, 999950, 1000000, 1050000, 2500000, 19999939}

ViewCounts ==
    {b + d : b \in ViewCountBases, d \in -MaxDelta..MaxDelta}
        \cap (0..(RandomRange - 1))

DigitChar(d) == <<"0", "1", "2", "3", "4", "5", "6", "7", "8", "9">>[d + 1]

\* Number.prototype.toString of a non-negative integer
RECURSIVE toString(_)
toString(n) ==
    IF n < 10 THEN <<DigitChar(n)>>
    ELSE toString(n \div 10) \o <<DigitChar(n % 10)>>

\* the binary exponent of the double m/20, for m/20 >= 1
RECURSIVE Exponent(_, _)
Exponent(m, k) == IF m < 20 * 2^(k + 1) THEN k ELSE Exponent(m, k + 1)

\* 2^j modulo 5
Pow2Mod5(j) == <<1, 2, 4, 3>>[(j % 4) + 1]

\* The quotient m/20 (m odd) lies halfway between two one-decimal values.
\* Its double is m/20 rounded to 53 bits: the part cut off is
\* (m * 2^(50 - Exponent)) mod 5 fifths of the last bit.  toFixed rounds the
\* double, so it goes up when the double lies above m/20, and also when the
\* double is m/20 exactly (of two equally near values toFixed takes the
\* larger).
HalfwayRoundsUp(m) ==
    LET r == (m * Pow2Mod5(50 - Exponent(m, 0))) % 5
    IN  r = 0 \/ r >= 3

\* (num / den).toFixed(1), for num / den >= 1
toFixed1(num, den) ==
    LET f == (10 * num) \div den
        rem == 10 * num - f * den
        n == IF 2 * rem < den THEN f
             ELSE IF 2 * rem > den THEN f + 1
             ELSE IF HalfwayRoundsUp(2 * f + 1) THEN f + 1 ELSE f
    IN  toString(n \div 10) \o <<".">> \o <<DigitChar(n % 10)>>

\* faulty variant: the test for millions is missing
formatViewCountNoMillions(count) ==
    IF count >= Thousand THEN toFixed1(count, Thousand) \o <<"K">>
    ELSE toString(count)

formatViewCount(count) ==
    IF count >= Million THEN toFixed1(count, Million) \o <<"M">>
    ELSE IF count >= Thousand THEN toFixed1(count, Thousand) \o <<"K">>
    ELSE toString(count)

\* the grid renders the view count of one video
RenderViewCount ==
    /\ helperOut = NotCalled
    /\ helperOut' = formatViewCount(helperIn.count)
    /\ UNCHANGED helperIn
    /\ UNCHANGED <<authVars, videoVars>>

InitFormat ==
    /\ helperIn \in [count : ViewCounts]
    /\ helperOut = NotCalled
    /\ AuthUnmounted
    /\ VideoUnmounted

NextFormat == RenderViewCount

SpecFormat == InitFormat /\ [][NextFormat]_vars

\* AuthGuard before its first render
InitAuth ==
    /\ wallet \in {[isConnected |-> FALSE, address |-> None, chain |-> NoChain]}
           \cup {[isConnected |-> TRUE, address |-> a, chain |-> c] :
                    a \in Addresses, c \in ChainIds}
    /\ sess = [isInitializing |-> TRUE, identity |-> FALSE,
               identityAddress |-> None]
    /\ login = None
    /\ mounted = FALSE
    /\ rendered = [isConnected |-> FALSE, address |-> None, chain |-> NoChain,
                   isInitializing |-> TRUE, identity |-> FALSE,
                   identityAddress |-> None]
    /\ shown = {}
    /\ pending = {}
    /\ lastClear = {}
    /\ wiped = FALSE
    /\ VideoUnmounted
    /\ HelperIdle

NextAuth ==
    \/ Commit
    \/ FlushEffects
    \/ \E a \in Addresses, c \in ChainIds : Connect(a, c)
    \/ Disconnect
    \/ \E c \in ChainIds : SwitchChain(c)
    \/ \E a \in Addresses : SwitchAddress(a)
    \/ InitDone
    \/ LoginStart
    \/ LoginComplete
    \/ LoginFail

SpecAuth == InitAuth /\ [][NextAuth]_vars

-----------------------------------------------------------------------------
(* Properties of AuthGuard *)

\* AuthGuard has rendered the current stores and its effects have run
Settled == mounted /\ pending = {} /\ rendered = Current

SessionEmpty(s) == ~s.identity /\ s.identityAddress = None

\* scheduled effects run on the values of their render, before the next one
FlushBeforeCommit ==
    pending # {} => rendered' = rendered /\ pending' \in {pending, {}}

\* C1: once initialization is complete and the effects have run, a shown
\* protected subtree implies a wallet address, a supported chain and an
\* identity address equal to the wallet address.
C1_SessionInvariant ==
    (Settled /\ ~rendered.isInitializing /\ "children" \in shown)
        => /\ rendered.address # None
           /\ isChainIdSupported(rendered.chain)
           /\ rendered.identityAddress = rendered.address

\* C2: when initialization is complete the login page is rendered iff the
\* wallet is not connected or no identity is present, the protected subtree
\* otherwise, and never both.
C2_RenderDecision ==
    (mounted /\ ~rendered.isInitializing)
        => /\ "LoginPage" \in shown
                <=> (~rendered.isConnected \/ ~rendered.identity)
           /\ "children" \in shown
                <=> (rendered.isConnected /\ rendered.identity)
           /\ Cardinality(shown) = 1

C2_Witness ==
    /\ mounted /\ ~rendered.isInitializing
    /\ shown = {"children"}
    /\ rendered.isConnected /\ rendered.identity

\* C3: the protected subtree is never shown while isInitializing is true.
C3_NoChildrenWhileInitializing ==
    (mounted /\ "children" \in shown) => ~rendered.isInitializing

BothSetAndUnequal(r) ==
    /\ r.address \in Addresses
    /\ r.identityAddress \in Addresses
    /\ r.address # r.identityAddress

\* C6: the address effect is scheduled on every change of the wallet address
\* or the identity address, and when it runs with both set and unequal it
\* calls clear(), leaving the session empty.
C6_AddressMismatchClears ==
    [][/\ (rendered' # rendered \/ mounted' # mounted)
           /\ BothSetAndUnequal(rendered')
           /\ (~mounted \/ rendered.address # rendered'.address
                         \/ rendered.identityAddress # rendered'.identityAddress)
           => 3 \in pending'
       /\ FlushBeforeCommit
       /\ (3 \in pending /\ pending' = {} /\ BothSetAndUnequal(rendered))
           => 3 \in lastClear' /\ SessionEmpty(sess')]_vars

C6_Witness ==
    /\ Settled /\ rendered.isConnected
    /\ lastClear = {3} /\ wiped

-----------------------------------------------------------------------------
(* Properties of VideoGrid *)

\* the fetch effect ran in this step
EffectRan == vgPending /\ ~vgPending'

FetchStarted == nFetches' # nFetches

\* the tag is there and is neither "all" nor "All" ("" counts as no tag)
TagIsFilter(t) ==
    t.defined /\ t.str # StrEmpty /\ t.str \notin {StrAll, StrAllCap}

Lowered(str) ==
    [k \in 1..Len(str) |-> IF str[k] \in 65..90 THEN str[k] + 32 ELSE str[k]]

Count(l, x) == Cardinality({k \in 1..Len(l) : l[k] = x})

IsPermutation(a, b) ==
    /\ Len(a) = Len(b)
    /\ \A k \in 1..Len(b) : Count(a, b[k]) = Count(b, b[k])

\* C7: a fetch is started only by an effect run with a ready actor and a key
\* (actor readiness, tag or "all") that differs from the key of the fetch
\* started before; an effect run with the same key starts no fetch, and no
\* backend call is issued outside the start of a fetch (no retry).
C7_RefetchOnlyOnKeyChange ==
    [][/\ FetchStarted
           => /\ EffectRan
              /\ nFetches' = nFetches + 1
              /\ actor.kind = "ready"
              /\ FetchId(actor, tag) # lastFetch.key
              /\ lastFetch'.key = FetchId(actor, tag)
       /\ (EffectRan /\ FetchId(actor, tag) = lastFetch.key)
           => nFetches' = nFetches
       /\ nCalls' # nCalls => FetchStarted]_vars

C7_Witness ==
    /\ nFetches = 1 /\ inflight = {} /\ ~vgPending
    /\ lastResp.fetch = 1 /\ lastResp.resp.kind = "reject"
    /\ actor.kind = "ready"
    /\ tag # lastFetch.tag
    /\ FetchId(actor, tag) = lastFetch.key

\* C8: with no backend client the loader leaves the Loading state with an
\* empty collection and no error.
C8_NoActorLoadedEmpty ==
    (actor.kind = "null" /\ ~vgPending /\ inflight = {})
        => ~loading /\ videos = <<>> /\ error = NoError

\* C9: when the key changes under a tag that is there and is no sentinel, the
\* fetch that starts issues exactly one backend call, the tag query with the
\* tag lower-cased ("Comedy" -> "comedy"), and no other call follows.
C9_TagQueryLowerCased ==
    [][/\ (EffectRan /\ actor.kind = "ready" /\ TagIsFilter(tag)
              /\ FetchId(actor, tag) # lastFetch.key)
           => /\ nFetches' = nFetches + 1
              /\ nCalls' = nCalls + 1
              /\ lastCall' = [fetch |-> nFetches',
                              op |-> "list_videos_by_tag",
                              arg |-> <<Lowered(tag.str)>>]
              /\ tag.str = StrComedy => lastCall'.arg = <<StrComedyLower>>
       /\ ~FetchStarted => nCalls' = nCalls]_vars

C9_Witness ==
    /\ lastFetch.tag = Str(StrComedy)
    /\ lastCall = [fetch |-> nFetches, op |-> "list_videos_by_tag",
                   arg |-> <<StrComedyLower>>]
    /\ nCalls = nFetches

\* C10: when the key changes under no tag or a sentinel tag and the actor
\* exposes search_videos, the fetch that starts issues exactly one backend
\* call, search_videos("", [], []); when that call returns a list, the
\* videos exposed are all of its elements and loading ends.
C10_UnfilteredSearch ==
    [][/\ (EffectRan /\ actor.kind = "ready" /\ ~TagIsFilter(tag)
              /\ actor.search_videos /\ FetchId(actor, tag) # lastFetch.key)
           => /\ nFetches' = nFetches + 1
              /\ nCalls' = nCalls + 1
              /\ lastCall' = [fetch |-> nFetches', op |-> "search_videos",
                              arg |-> <<StrEmpty, <<>>, <<>>>>]
       /\ ~FetchStarted => nCalls' = nCalls
       /\ (lastResp' # lastResp /\ ~TagIsFilter(lastResp'.tag)
              /\ lastResp'.resp.kind = "ok")
           => /\ IsPermutation(videos', lastResp'.resp.list)
              /\ ~loading']_vars

C10_Witness ==
    /\ ~lastResp.tag.defined
    /\ lastResp.resp = [kind |-> "ok", list |-> <<5, 20, 1>>]
    /\ videos = <<20, 5, 1>>
    /\ lastCall.op = "search_videos" /\ nCalls = 1

\* C11: the collection exposed after a backend query returned a list is a
\* permutation of that list in non-increasing order of Number(timestamp);
\* timestamps [5, 20, 1] are exposed as [20, 5, 1].
C11_SortedPermutation ==
    lastResp.resp.kind = "ok"
        => /\ IsPermutation(videos, lastResp.resp.list)
           /\ \A i, j \in 1..Len(videos) :
                 i < j => Number(videos[i]) >= Number(videos[j])
           /\ lastResp.resp.list = <<5, 20, 1>> => videos = <<20, 5, 1>>

C11_Witness ==
    /\ lastResp.fetch = 1
    /\ lastResp.resp = [kind |-> "ok", list |-> <<5, 20, 1>>]
    /\ videos = <<20, 5, 1>>
    /\ ~loading

\* a backend call settled in this step
Settled1 == lastResp' # lastResp

\* C12: a fetch whose tag query fails, whose search call rejects, or whose
\* actor has no search_videos ends with an empty collection and loading
\* false, and does not set the error state.
C12_DegradeToEmpty ==
    [][/\ (Settled1 /\ (lastResp'.resp.kind = "reject"
                          \/ (lastResp'.resp.kind = "null"
                                /\ TagIsFilter(lastResp'.tag))))
           => videos' = <<>> /\ ~loading' /\ error' = error
       /\ (FetchStarted /\ ~TagIsFilter(tag) /\ ~actor.search_videos)
           => /\ videos' = <<>> /\ ~loading' /\ error' = NoError
              /\ nCalls' = nCalls /\ inflight' = inflight]_vars

C12_Witness ==
    /\ lastResp.resp.kind = "reject" /\ TagIsFilter(lastResp.tag)
    /\ inflight = {} /\ nFetches = 2
    /\ videos = <<>> /\ ~loading /\ error = NoError
    /\ renderBranch = "empty"

\* C13: the error state is set only by a fetch in which an exception passes
\* the handlers of the queries (search_videos returned no list), and that
\* step empties the collection and ends loading; it is the only step that
\* brings the error panel up. A rejected query never sets the error state.
C13_ErrorOnlyTopLevel ==
    [][/\ (error' # error /\ error' # NoError)
           => /\ Settled1
              /\ lastResp'.resp.kind = "null" /\ ~TagIsFilter(lastResp'.tag)
              /\ videos' = <<>> /\ ~loading'
       /\ (renderBranch' = "error") <=> (error' # NoError)
       /\ (Settled1 /\ lastResp'.resp.kind = "null"
              /\ ~TagIsFilter(lastResp'.tag))
           => error' = TypeErrorMessage]_vars

C13_Witness ==
    /\ lastResp.resp.kind = "null" /\ ~TagIsFilter(lastResp.tag)
    /\ error = TypeErrorMessage /\ renderBranch = "error"
    /\ videos = <<>> /\ ~loading

\* the string the storage reference of a video stands for, "" when there is
\* none
RefString(ref) ==
    IF ref.t = "string" \/ (ref.t = "array" /\ Len(ref.v) > 0)
    THEN ref.v[1] ELSE <<>>

RefIsIpfs(ref) ==
    Len(RefString(ref)) >= 5 /\ SubSeq(RefString(ref), 1, 5) = IpfsPrefix

\* C14: a video with a video id gets the playback-id thumbnail whatever its
\* storage reference; without one, a storage reference that begins with
\* "ipfs:" gives the gateway URL of the rest of it, on the configured gateway
\* or the default one; any other video gets the fallback image.
C14_ThumbnailPriority ==
    helperOut # NotCalled =>
      LET video == helperIn.video
          ref == video.storage_ref
          hasId == video.video_id.defined /\ video.video_id.str # <<>>
          domain == IF helperIn.env.defined /\ helperIn.env.str # <<>>
                    THEN helperIn.env.str ELSE DefaultGateway
      IN  /\ hasId => helperOut = <<"https://vod-cdn.lp-playback.studio/hls/",
                                    video.video_id.str,
                                    "/thumbnails/keyframes_0.jpg">>
          /\ (~hasId /\ RefIsIpfs(ref))
                => helperOut = <<"https://", domain, "/ipfs/",
                                 SubSeq(RefString(ref), 6, Len(RefString(ref))),
                                 "/thumbnail.jpg">>
          /\ (~hasId /\ ~RefIsIpfs(ref)) => helperOut = <<"/header.png">>

C14_Witness ==
    /\ helperOut = PlaybackThumbnail(VideoIdV1)
    /\ helperIn.video.video_id = Str(VideoIdV1)
    /\ helperIn.video.storage_ref
          = [t |-> "array", v |-> <<IpfsPrefix \o CidQm>>]

IsDigit(c) == \E d \in 0..9 : DigitChar(d) = c

DigitValue(c) == CHOOSE d \in 0..9 : DigitChar(d) = c

\* str is the decimal numeral of a natural number, without leading zeros
IsDecimal(str) ==
    /\ Len(str) >= 1
    /\ \A i \in 1..Len(str) : IsDigit(str[i])
    /\ Len(str) > 1 => str[1] # "0"

RECURSIVE ParseDecimal(_)
ParseDecimal(str) ==
    IF str = <<>> THEN 0
    ELSE ParseDecimal(SubSeq(str, 1, Len(str) - 1)) * 10
           + DigitValue(str[Len(str)])

\* out reads <integer>.<digit><suffix> and, as a number of tenths, is
\* within half a tenth of count / unit
IsAbbreviation(out, count, unit, suffix) ==
    /\ Len(out) >= 4
    /\ out[Len(out)] = suffix
    /\ out[Len(out) - 2] = "."
    /\ IsDigit(out[Len(out) - 1])
    /\ IsDecimal(SubSeq(out, 1, Len(out) - 3))
    /\ LET n == ParseDecimal(SubSeq(out, 1, Len(out) - 3)) * 10
                  + DigitValue(out[Len(out) - 1])
           d == 10 * count - n * unit
       IN  2 * d <= unit /\ -2 * d <= unit

\* C15: a count below 1000 is shown as its decimal numeral; from 1000 to
\* below 1,000,000 as count/1000 with one decimal place and "K"; from
\* 1,000,000 as count/1,000,000 with one decimal place and "M"
\* (999 -> "999", 1500 -> "1.5K", 2500000 -> "2.5M").
C15_ViewCountAbbreviation ==
    helperOut # NotCalled =>
      LET count == helperIn.count
      IN  /\ count < 1000
                => IsDecimal(helperOut) /\ ParseDecimal(helperOut) = count
          /\ (count >= 1000 /\ count < 1000000)
                => IsAbbreviation(helperOut, count, 1000, "K")
          /\ count >= 1000000
                => IsAbbreviation(helperOut, count, 1000000, "M")
          /\ count = 999 => helperOut = <<"9", "9", "9">>
          /\ count = 1500 => helperOut = <<"1", ".", "5", "K">>
          /\ count = 2500000 => helperOut = <<"2", ".", "5", "M">>

C15_Witness ==
    helperIn = [count |-> 2500000] /\ helperOut = <<"2", ".", "5", "M">>

\* C16: a fetch in flight is not cancelled when a later fetch starts; every
\* settling fetch writes its own collection, the latest fetch or not, so
\* the collection shown is that of the fetch that settled last, and it can
\* belong to a tag that is no longer the current one.
C16_LastResolvedWins ==
    [][/\ FetchStarted => inflight \subseteq inflight'
       /\ Settled1
            => /\ lastResp'.resp.kind = "ok"
                     => IsPermutation(videos', lastResp'.resp.list)
               /\ lastResp'.resp.kind # "ok" => videos' = <<>>
               /\ inflight' = inflight
                     \ {f \in inflight : f.id = lastResp'.fetch}]_vars

\* both fetches have settled, the one for the earlier tag last: its
\* collection is shown under the current tag
C16_Witness ==
    /\ nFetches = 2 /\ nCalls = 2 /\ inflight = {} /\ ~vgPending
    /\ lastCall.fetch = 2 /\ lastFetch.tag = tag
    /\ lastResp.fetch = 1 /\ lastResp.tag # tag
    /\ TagIsFilter(lastResp.tag) /\ ~TagIsFilter(tag)
    /\ lastCall.op = "search_videos"
    /\ lastResp.resp = [kind |-> "ok", list |-> <<5, 20, 1>>]
    /\ videos = <<20, 5, 1>>
    /\ renderBranch = "videos"

\* the fetch started last is still waiting for its backend call
LatestInFlight == \E f \in inflight : f.id = nFetches

\* C17: while the fetch started last has not settled, loading is true,
\* whatever earlier fetches do in the meantime.
C17_LoadingWhileLatestInFlight == LatestInFlight => loading

\* the values an effect run sees describe a healthy session
Healthy(r) ==
    /\ r.isConnected
    /\ r.chain \in SupportedChainIds
    /\ r.address = r.identityAddress
         \/ r.address = None \/ r.identityAddress = None

EffectsRun == pending # {} /\ pending' = {}

\* C18: clear() is called only by an effect whose own condition holds on
\* the values it was rendered with; an effect run that sees a connected
\* wallet, a supported chain and addresses that are equal or not both set
\* calls no clear() and leaves the session as it is.
C18_HealthySessionKept ==
    [][EffectsRun
         => /\ lastClear' \subseteq pending
            /\ 1 \in lastClear' => ~rendered.isConnected
            /\ 2 \in lastClear' => rendered.chain \notin SupportedChainIds
            /\ 3 \in lastClear'
                 => /\ rendered.address # None
                    /\ rendered.identityAddress # None
                    /\ rendered.address # rendered.identityAddress
            /\ sess' # sess => lastClear' # {}
            /\ Healthy(rendered) => lastClear' = {} /\ sess' = sess]_vars

\* the effects have run on a render with an identity for the connected
\* address, and the session is still there
C18_Witness ==
    /\ Settled /\ lastClear = {}
    /\ Healthy(rendered)
    /\ rendered.identity /\ rendered.identityAddress = rendered.address
    /\ rendered.address # None
    /\ sess.identity /\ sess.identityAddress = rendered.address
    /\ shown = {"children"}

\* C19: a fetch issues at most one backend call, the tag query or the
\* unfiltered search, at its start; the settling of a call, failed tag
\* queries included, issues no further call.
C19_AtMostOneCall ==
    [][/\ nCalls' \in {nCalls, nCalls + 1}
       /\ nCalls' # nCalls
            => /\ FetchStarted /\ nFetches' = nFetches + 1
               /\ lastCall'.fetch = nFetches'
               /\ lastCall'.op = IF TagIsFilter(tag) THEN "list_videos_by_tag"
                                 ELSE "search_videos"
               /\ Cardinality(inflight') = Cardinality(inflight) + 1
       /\ Settled1
            => /\ nCalls' = nCalls /\ lastCall' = lastCall
               /\ Cardinality(inflight') = Cardinality(inflight) - 1]_vars

\* the tag query of the only fetch was rejected and nothing else was called
C19_Witness ==
    /\ nFetches = 1 /\ nCalls = 1 /\ inflight = {}
    /\ lastCall.fetch = 1 /\ lastCall.op = "list_videos_by_tag"
    /\ lastResp.fetch = 1 /\ lastResp.resp.kind = "reject"
    /\ videos = <<>> /\ ~loading

\* C20: the step that starts a fetch leaves error null and, when it issues
\* a backend call, loading true; the step in which a call settles leaves
\* loading false whatever the outcome (a list, a rejection, a value that
\* makes fetchVideos throw); and once a fetch has been started and no call
\* is in flight, loading is false.
C20_LoadingBracketsFetch ==
    [][/\ FetchStarted => error' = NoError
       /\ nCalls' # nCalls
            => /\ loading' /\ error' = NoError
               /\ \E f \in inflight' : f.id = nFetches'
       /\ Settled1 => ~loading'
       /\ (nFetches' > 0 /\ inflight' = {}) => ~loading']_vars

\* two fetches issued a call, both calls have settled, the later one with a
\* list, and the grid shows it
C20_Witness ==
    /\ nFetches = 2 /\ nCalls = 2 /\ inflight = {} /\ ~vgPending
    /\ lastResp.fetch = 2
    /\ lastResp.resp = [kind |-> "ok", list |-> <<1, 5, 5>>]
    /\ ~loading /\ error = NoError
    /\ renderBranch = "videos"

====
